---- MODULE Spec2Model ----
(***************************************************************************)
(* The four DORA metric Lambda handlers of cdk/lambdas: deployment         *)
(* frequency, lead time for change, change failure rate and mean time to   *)
(* restore.  Every handler is a Python function of the inbound event and   *)
(* of the answers of the external services it calls (CodePipeline, SSM     *)
(* OpsCenter, Athena, CloudWatch).  A handler is modelled as an operator   *)
(* of (event, env) that computes its outcome: how it ends (return / raise  *)
(* / exit), the acknowledgement it returns and the ordered list of the     *)
(* external calls it made.  One action per handler draws the event and the *)
(* answers of the services and records the outcome.                        *)
(*                                                                         *)
(* Python values.  An optional value (a dict key that may be absent, a     *)
(* value that may be None) is None or Some(v).  Strings that the code only *)
(* compares for equality are TLA+ strings; strings the code searches       *)
(* (repository names, the serialized repository list, commit messages)     *)
(* are sequences of one-character strings.  A datetime is a number of      *)
(* seconds after 2023-01-01T00:00:00Z.                                     *)
(***************************************************************************)
EXTENDS Integers, Sequences, FiniteSets, TLC

VARIABLES
    app_repo_list,  \* module global: os.getenv("app_repo_names"), a string or None
    phase,          \* "idle" (no invocation running) or "done" (an invocation ended)
    inv,            \* the invocation: [handler, event, env]
    out,            \* its outcome: [kind, ack, calls]
    delivered,      \* outcomes of the deliveries that followed, in order
    codepipeline,   \* the pipeline the events come from: executions and stage states
    workers,        \* concurrent invocations: position, event, answers, locals
    queries         \* Athena: the answers kept for each query execution id

vars == <<app_repo_list, phase, inv, out, delivered, codepipeline, workers, queries>>

None == [some |-> FALSE]
Some(x) == [some |-> TRUE, v |-> x]

\* ---------------------------------------------------------------- bounds
MaxStages == 2   \* stages in a get_pipeline_state response
MaxTick == 1     \* timestamps are multiples of 1800 s up to MaxTick * 1800

\* --------------------------------------------------------- configuration
default_branch == "main"
app_prod_stage_name == "DeployPROD"

repo_app_sample_1 ==
    <<"r","e","p","o","-","a","p","p","-","s","a","m","p","l","e","-","1">>
amazon_github_dora ==
    <<"a","m","a","z","o","n","/","g","i","t","h","u","b","-","d","o","r","a">>
app1 == <<"a","p","p","1">>

APP_REPOSITORY_NAMES == <<repo_app_sample_1, amazon_github_dora, app1>>

RECURSIVE str_join(_, _)
\* sep.join(names)
str_join(sep, names) ==
    IF Len(names) = 0 THEN <<>>
    ELSE IF Len(names) = 1 THEN names[1]
    ELSE names[1] \o sep \o str_join(sep, Tail(names))

\* ",".join(config.APP_REPOSITORY_NAMES), the value the unit tests export
app_repo_names_joined == str_join(<<",">>, APP_REPOSITORY_NAMES)

RECURSIVE quote_all(_)
quote_all(names) ==
    IF Len(names) = 0 THEN <<>>
    ELSE <<(<<"\"">> \o names[1] \o <<"\"">>)>> \o quote_all(Tail(names))

\* json.dumps([...]), the value the lead-time stack exports
app_repo_names_json ==
    <<"[">> \o str_join(<<",", " ">>, quote_all(APP_REPOSITORY_NAMES)) \o <<"]">>

\* os.getenv("app_repo_names"): the exported string, or None when unset
AppRepoListValues ==
    {Some(app_repo_names_joined), Some(app_repo_names_json), None}

\* ----------------------------------------------------------- Python bits
\* s in t, for two str
IsSubstring(s, t) ==
    \E i \in 0..(Len(t) - Len(s)) : SubSeq(t, i + 1, i + Len(s)) = s

\* repository_name in app_repo_list: TypeError when either side is None
repo_in_app_repo_list(repository_name) ==
    IF ~app_repo_list.some \/ ~repository_name.some
    THEN [ok |-> FALSE, exc |-> "TypeError"]
    ELSE [ok |-> TRUE, val |-> IsSubstring(repository_name.v, app_repo_list.v)]

\* outcomes of a function: it returns, raises, or exits the process
Ret(ack, calls) == [kind |-> "return", ack |-> ack, calls |-> calls]
Raise(exc, calls) == [kind |-> "raise", ack |-> [exc |-> exc], calls |-> calls]
Exit(calls) == [kind |-> "exit", ack |-> [code |-> 1], calls |-> calls]

Call(api) == [api |-> api]

\* ------------------------------------------------------------ CloudWatch
\* how the metric sink behaves in an invocation
CloudWatchModes == {"ok", "put_fails", "client_fails"}

\* put_metric_data with a second attempt after a refused put
put_metric_data_retry(mode, namespace, name, unit, value) ==
    LET call == [api |-> "put_metric_data", Namespace |-> namespace,
                 MetricName |-> name, Unit |-> unit, Value |-> value,
                 accepted |-> (mode = "ok")]
    IN  IF mode = "client_fails" THEN [raised |-> FALSE, calls |-> <<>>]
        ELSE IF mode = "put_fails" THEN [raised |-> FALSE, calls |-> <<call, call>>]
        ELSE [raised |-> FALSE, calls |-> <<call>>]

\* put_metric_data without the try/except around the client and the put
put_metric_data_unguarded(mode, namespace, name, unit, value) ==
    IF mode = "client_fails" THEN [raised |-> TRUE, calls |-> <<>>]
    ELSE [raised |-> (mode # "ok"),
          calls |-> << [api |-> "put_metric_data", Namespace |-> namespace,
                        MetricName |-> name, Unit |-> unit, Value |-> value,
                        accepted |-> (mode = "ok")] >>]

\* the body shared by the four publish functions: create the client, put
\* one sample, log and swallow any exception.  Returns the calls made and
\* whether an exception leaves the function (never: the except clause
\* catches Exception).
put_metric_data(mode, namespace, name, unit, value) ==
    IF mode = "client_fails" THEN [raised |-> FALSE, calls |-> <<>>]
    ELSE [raised |-> FALSE,
          calls |-> << [api |-> "put_metric_data", Namespace |-> namespace,
                        MetricName |-> name, Unit |-> unit, Value |-> value,
                        accepted |-> (mode = "ok")] >>]

\* the handler after a publish function: an exception leaving the function
\* would be raised in the handler, else the handler returns ack
AfterPublish(ack, calls, published) ==
    IF published.raised THEN Raise("Exception", calls \o published.calls)
    ELSE Ret(ack, calls \o published.calls)

deployment_frequency_metric(mode) ==
    put_metric_data(mode, "DORA", "DeploymentFrequency", "Count", 1)

failed_deployments_metric(mode) ==
    put_metric_data(mode, "DORA/ChangeFailureRate", "TotalFailedItems", "Count", 1)

\* ---------------------------------------------------------- CodePipeline
StageNames == {"Source", app_prod_stage_name}
StageStatuses == {"Succeeded", "Failed"}

\* one element of stageStates; latestExecution is absent for a stage that
\* has not run
StageStates ==
    [stageName : StageNames,
     latestExecution : {None} \cup {Some(s) : s \in StageStatuses}]

SeqsUpTo(S, n) == UNION {[1..k -> S] : k \in 0..n}

\* answers of codepipeline.get_pipeline_state
GetPipelineStateResponses ==
    {[kind |-> "raise", exc |-> "PipelineNotFoundException"],
     [kind |-> "raise", exc |-> "ClientError"],
     [kind |-> "ok", stageStates |-> None]}
    \cup {[kind |-> "ok", stageStates |-> Some(s)] : s \in SeqsUpTo(StageStates, MaxStages)}

\* get_stage_details returning the empty list when the call raises
get_stage_details_empty_on_error(response) ==
    IF response.kind = "raise" THEN Some(<<>>)
    ELSE IF ~response.stageStates.some THEN Some(<<>>)
    ELSE IF \E i \in 1..Len(response.stageStates.v) :
               ~response.stageStates.v[i].latestExecution.some
         THEN None
         ELSE Some([i \in 1..Len(response.stageStates.v) |->
                      [name |-> response.stageStates.v[i].stageName,
                       status |-> response.stageStates.v[i].latestExecution.v]])

\* get_stage_details: the list of {name, status}, [] without stageStates,
\* None when the call or the comprehension raises
get_stage_details(response) ==
    IF response.kind = "raise" THEN None
    ELSE IF ~response.stageStates.some THEN Some(<<>>)
    ELSE LET stages == response.stageStates.v IN
         IF \E i \in 1..Len(stages) : ~stages[i].latestExecution.some
         THEN None
         ELSE Some([i \in 1..Len(stages) |->
                      [name |-> stages[i].stageName,
                       status |-> stages[i].latestExecution.v]])

\* deploy_stage_success without the test of the stage name
deploy_stage_success_any_stage(stage_details) ==
    \E i \in 1..Len(stage_details) : stage_details[i].status = "Succeeded"

\* deploy_stage_success with all() for any()
deploy_stage_success_all(stage_details) ==
    \A i \in 1..Len(stage_details) :
        /\ stage_details[i].name = app_prod_stage_name
        /\ stage_details[i].status = "Succeeded"

\* any(stage["name"] == app_prod_stage_name and stage["status"] == "Succeeded")
deploy_stage_success(stage_details) ==
    \E i \in 1..Len(stage_details) :
        /\ stage_details[i].name = app_prod_stage_name
        /\ stage_details[i].status = "Succeeded"

repo1 == <<"r","e","p","o","1">>
app == <<"a","p","p">>

\* repository names seen in events and pipeline configurations: a
\* configured one, one that is only a part of a configured one, another one
RepositoryNames == {app1, app, repo1}
BranchNames == {"main", "master", "develop"}

SourceAction(branch, repo) ==
    [category |-> "Source", BranchName |-> branch, RepositoryName |-> repo]
BuildAction == [category |-> "Build", BranchName |-> None, RepositoryName |-> None]

\* pipeline["stages"] of the get_pipeline answers
PipelineStages ==
    {<<>>, << [name |-> "Build", actions |-> <<BuildAction>>] >>,
     << [name |-> "Source", actions |-> <<BuildAction>>] >>}
    \cup {<< [name |-> "Source", actions |-> <<SourceAction(b, r)>>],
             [name |-> "Build", actions |-> <<BuildAction>>] >> :
            b \in {None} \cup {Some(x) : x \in BranchNames},
            r \in {None} \cup {Some(x) : x \in RepositoryNames}}
    \cup {<< [name |-> "Source",
              actions |-> <<BuildAction, SourceAction(Some("master"), Some(repo1)),
                            SourceAction(Some("develop"), Some(app1))>>] >>}

GetPipelineFailures ==
    {[kind |-> "raise", exc |-> "PipelineNotFoundException"],
     [kind |-> "raise", exc |-> "ClientError"]}

\* answers of codepipeline.get_pipeline
GetPipelineResponses ==
    GetPipelineFailures \cup {[kind |-> "ok", stages |-> s] : s \in PipelineStages}

\* the answers drawn where the handler does not look into the pipeline
GetPipelineResponsesUnread ==
    GetPipelineFailures
    \cup {[kind |-> "ok", stages |-> <<>>],
          [kind |-> "ok",
           stages |-> << [name |-> "Source",
                          actions |-> <<SourceAction(Some("main"), Some(repo1))>>] >>]}

\* the (stage, action) positions of the Source-category actions of the
\* stages named "Source"
SourcePositions(stages) ==
    {h \in UNION {{<<i, j>> : j \in 1..Len(stages[i].actions)} : i \in 1..Len(stages)} :
        /\ stages[h[1]].name = "Source"
        /\ stages[h[1]].actions[h[2]].category = "Source"}

\* the position the two loops reach first
FirstPosition(hits) ==
    CHOOSE x \in hits : \A y \in hits : x[1] < y[1] \/ (x[1] = y[1] /\ x[2] <= y[2])

\* (branch_name, repository_name) of an action's configuration
SourceConfiguration(action) == <<action.BranchName, action.RepositoryName>>

ActionAt(stages, h) == stages[h[1]].actions[h[2]]

\* extract_branch_from_pipeline_details: (branch, repository) of the first
\* Source-category action of a stage named "Source", else None
extract_branch_from_pipeline_details(pipeline_details) ==
    IF SourcePositions(pipeline_details.stages) = {} THEN None
    ELSE Some(SourceConfiguration(
                 ActionAt(pipeline_details.stages,
                          FirstPosition(SourcePositions(pipeline_details.stages)))))

\* ------------------------------------------------- deployment frequency
Ack200(body) == [statusCode |-> 200, body |-> body]
Ack500(body) == [statusCode |-> 500, body |-> body]

PipelineStates == {"SUCCEEDED", "FAILED"}

\* event["detail"]["state"], event["detail"]["pipeline"]; None = key absent
DFEvents ==
    [state : {None} \cup {Some(s) : s \in PipelineStates},
     pipeline : {None, Some("github-dora-test")}]

\* lines 68-88: the model of the repository decides what is tested
DF_decide(event, env, calls, branch_name, trunk, stage_details) ==
    IF ~trunk.ok THEN Raise(trunk.exc, calls)
    ELSE IF trunk.val
    THEN IF ~stage_details.some THEN Raise("TypeError", calls)
         ELSE IF deploy_stage_success(stage_details.v)
              THEN AfterPublish(Ack200("Deployment frequency metric updated successfully"),
                                calls, deployment_frequency_metric(env.cloudwatch))
              ELSE Ret(Ack200("Deployment frequency metric updated successfully"), calls)
    ELSE IF event.state.v = "SUCCEEDED" /\ branch_name = Some("master")
         THEN AfterPublish(Ack200("Deployment frequency metric updated successfully"),
                           calls, deployment_frequency_metric(env.cloudwatch))
         ELSE Ret(Ack200("Deployment frequency metric updated successfully"), calls)

\* lines 62-66: unpack the source configuration, fetch the stage details
DF_resolved(event, env, calls, source) ==
    IF ~source.some THEN Raise("TypeError", calls)
    ELSE DF_decide(event, env, Append(calls, Call("get_pipeline_state")),
                   source.v[1], repo_in_app_repo_list(source.v[2]),
                   get_stage_details(env.get_pipeline_state))

\* the try block of lambda_handler
DF_try(event, env) ==
    IF ~event.state.some \/ ~event.pipeline.some THEN Raise("KeyError", <<>>)
    ELSE IF env.get_pipeline.kind = "raise"
         THEN Raise(env.get_pipeline.exc, <<Call("get_pipeline")>>)
    ELSE DF_resolved(event, env, <<Call("get_pipeline")>>,
                     extract_branch_from_pipeline_details(env.get_pipeline))

\* except Exception: return statusCode 500
DF_except(r) ==
    IF r.kind = "raise" THEN Ret(Ack500("Error processing the event"), r.calls)
    ELSE r

\* lambda_handler of dora_custom_deployment_frequency_metric
DF_lambda_handler(event, env) == DF_except(DF_try(event, env))

\* ---------------------------------------------------- change failure rate
DetailTypes == {"OpsItem Create", "OpsItem Update"}
OpsItemStatuses == {"Open", "Closed", "Resolved"}

\* event["detail-type"], event["detail"]["status"]; None = key absent
CFREvents ==
    [detail_type : {None} \cup {Some(s) : s \in DetailTypes},
     status : {None} \cup {Some(s) : s \in OpsItemStatuses}]

\* ops_item_created with "or" for "and"
ops_item_created_either(detail_type, ops_item_status) ==
    detail_type = "OpsItem Create" \/ ops_item_status = "Open"

\* detail_type == "OpsItem Create" and ops_item_status == "Open"
ops_item_created(detail_type, ops_item_status) ==
    detail_type = "OpsItem Create" /\ ops_item_status = "Open"

\* the try block of lambda_handler
CFR_try(event, env) ==
    IF ~event.detail_type.some \/ ~event.status.some THEN Raise("KeyError", <<>>)
    ELSE IF ops_item_created(event.detail_type.v, event.status.v)
         THEN AfterPublish(Ack200("Metric updated successfully"), <<>>,
                           failed_deployments_metric(env.cloudwatch))
         ELSE Ret(Ack200("Metric updated successfully"), <<>>)

\* except Exception: return statusCode 500
CFR_except(r) ==
    IF r.kind = "raise" THEN Ret(Ack500("Error processing the event"), r.calls)
    ELSE r

\* lambda_handler of dora_custom_change_failure_rate_metric
CFR_lambda_handler(event, env) == CFR_except(CFR_try(event, env))

\* ------------------------------------------------------------ timestamps
Times == {k * 1800 : k \in 0..MaxTick}

\* a timestamp string: ISO-8601 with an offset ("2023-01-01T01:00:00Z"),
\* without one, not a date at all, or the empty string
IsoTime(t) == [fmt |-> "iso", t |-> t]
NaiveTime(t) == [fmt |-> "naive", t |-> t]
BadTime == [fmt |-> "bad"]
EmptyString == [fmt |-> "empty"]

\* a datetime: seconds after 2023-01-01T00:00:00Z, timezone-aware or not
DateTime(t, aware) == [t |-> t, aware |-> aware]

\* dateutil parser.parse(timestr); timestr is None or Some(string)
parse(timestr) ==
    IF ~timestr.some THEN [ok |-> FALSE, exc |-> "TypeError"]
    ELSE IF timestr.v.fmt = "iso"
         THEN [ok |-> TRUE, val |-> DateTime(timestr.v.t, TRUE)]
    ELSE IF timestr.v.fmt = "naive"
         THEN [ok |-> TRUE, val |-> DateTime(timestr.v.t, FALSE)]
    ELSE [ok |-> FALSE, exc |-> "ValueError"]

\* (a - b).total_seconds() for a datetime a and b a datetime or None
total_seconds_between(a, b) ==
    IF ~b.some \/ a.aware # b.v.aware THEN [ok |-> FALSE, exc |-> "TypeError"]
    ELSE [ok |-> TRUE, val |-> a.t - b.v.t]

\* ------------------------------------------------------ commit messages
\* the k-th smallest element of a set of positions
Nth(positions, k) ==
    CHOOSE i \in positions : Cardinality({j \in positions : j < i}) = k - 1

\* the parts of s between the separators at the positions seps
PartsBetween(s, seps) ==
    [k \in 1..(Cardinality(seps) + 1) |->
        SubSeq(s,
               IF k = 1 THEN 1 ELSE Nth(seps, k - 1) + 1,
               IF k = Cardinality(seps) + 1 THEN Len(s) ELSE Nth(seps, k) - 1)]

\* s.split(sep) for a one-character sep
split(s, sep) == PartsBetween(s, {i \in 1..Len(s) : s[i] = sep})

known_prefixes == {<<"f","i","x">>, <<"h","o","t","f","i","x">>}
known_suffixes == {<<"h","o","t","f","i","x">>, <<"f","i","x">>}

\* the pattern r"from [^/]+/(.+?)(?:\n|$)" matches at i: "from " at i, one
\* or more characters other than "/" up to a "/", then at least one
\* character of the same line
MatchesAt(commit_message, i) ==
    /\ i + 4 <= Len(commit_message)
    /\ SubSeq(commit_message, i, i + 4) = <<"f","r","o","m"," ">>
    /\ \E j \in (i + 6)..Len(commit_message) :
         /\ commit_message[j] = "/"
         /\ \A k \in (i + 5)..(j - 1) : commit_message[k] # "/"
         /\ j + 1 <= Len(commit_message)
         /\ commit_message[j + 1] # "\n"

\* the first "/" at or after position p
FirstSlash(commit_message, p) ==
    CHOOSE j \in p..Len(commit_message) :
        /\ commit_message[j] = "/"
        /\ \A k \in p..(j - 1) : commit_message[k] # "/"

\* EndOfLine with the group running to the end of the message
EndOfLine_end_of_message(commit_message, g) == Len(commit_message)

\* the last position of the line that position g is on
EndOfLine(commit_message, g) ==
    CHOOSE e \in g..Len(commit_message) :
        /\ e = Len(commit_message) \/ commit_message[e + 1] = "\n"
        /\ \A k \in g..(e - 1) : commit_message[k + 1] # "\n"

\* group(1) of the match that starts at i
GroupOfMatch(commit_message, i) ==
    SubSeq(commit_message,
           FirstSlash(commit_message, i + 5) + 1,
           EndOfLine(commit_message, FirstSlash(commit_message, i + 5) + 1))

\* re.search returns the leftmost match
LeftmostMatch(commit_message, starts) ==
    IF starts = {} THEN None
    ELSE Some(GroupOfMatch(commit_message,
                           CHOOSE x \in starts : \A y \in starts : x <= y))

\* re.search(pattern, commit_message).group(1), or None without a match
search_branch_name(commit_message) ==
    LeftmostMatch(commit_message,
                  {i \in 1..Len(commit_message) : MatchesAt(commit_message, i)})

\* lines 67-78: the middle part of prefix/id/suffix, else the last part
incident_id(parts) ==
    IF /\ Len(parts) = 3
       /\ parts[1] \in known_prefixes
       /\ parts[Len(parts)] \in known_suffixes
    THEN parts[2]
    ELSE parts[Len(parts)]

\* lines 64-81: the incident id of the match, None without a match
incident_id_of_match(match) ==
    IF ~match.some THEN None ELSE Some(incident_id(split(match.v, "/")))

\* extract_source_branch_name: the incident id named by the merged branch
extract_source_branch_name(commit_message) ==
    incident_id_of_match(search_branch_name(commit_message))

msg_fix_hotfix ==
    <<"f","r","o","m"," ","f","i","x","/","i","7","/","h","o","t","f","i","x">>
msg_feature == <<"f","r","o","m"," ","f","e","a","t","/","i","7">>
msg_plain == <<"f","i","x"," ","i","7">>

CommitMessages == {msg_fix_hotfix, msg_feature, msg_plain}

\* ------------------------------------------------------------ OpsCenter
OpsItem(t) == [OpsItemId |-> <<"i","7">>, CreatedTime |-> DateTime(t, TRUE)]

\* answers of ssm.describe_ops_items
DescribeOpsItemsResponses ==
    {[kind |-> "raise", exc |-> "ClientError"],
     [kind |-> "ok", OpsItemSummaries |-> None],
     [kind |-> "ok", OpsItemSummaries |-> Some(<<>>)]}
    \cup {[kind |-> "ok", OpsItemSummaries |-> Some(<<OpsItem(t)>>)] : t \in Times}
    \cup {[kind |-> "ok", OpsItemSummaries |-> Some(<<OpsItem(t), OpsItem(0)>>)] :
            t \in Times \ {0}}

\* -------------------------------------------------- mean time to restore
\* line 125: (final_time - creation_time).total_seconds()
downtime_between(final_time, creation_time) ==
    IF ~final_time.ok THEN final_time
    ELSE total_seconds_between(final_time.val, creation_time)

\* calculate_downtime(creation_time, final_time_str)
calculate_downtime(creation_time, final_time_str) ==
    downtime_between(parse(final_time_str), creation_time)

\* send_to_cloudwatch with the namespace of the other handlers
send_to_cloudwatch_in_dora(mode, downtime_seconds) ==
    put_metric_data(mode, "DORA", "Downtime-OPS-Item", "Seconds", downtime_seconds)

send_to_cloudwatch(mode, downtime_seconds) ==
    put_metric_data(mode, "DORA/MeanTimeToRestore", "Downtime-OPS-Item",
                    "Seconds", downtime_seconds)

EventTimes == {Some(IsoTime(t)) : t \in Times} \cup {Some(BadTime)}

\* detail.pipeline, detail.state, the execution-trigger fields and the
\* top-level time; None = key absent
MTTRWellFormedEvents ==
    [pipeline : {Some("github-dora-test")},
     state : {Some(s) : s \in PipelineStates},
     repository_name : {Some(r) : r \in RepositoryNames},
     branch_name : {Some(b) : b \in {"main", "develop"}},
     commit_message : {Some(m) : m \in CommitMessages},
     time : {None} \cup EventTimes]

MTTRRequiredKeys ==
    {"pipeline", "state", "repository_name", "branch_name", "commit_message"}

MTTRRestoreEvent ==
    [pipeline |-> Some("github-dora-test"), state |-> Some("SUCCEEDED"),
     repository_name |-> Some(repo1), branch_name |-> Some("main"),
     commit_message |-> Some(msg_fix_hotfix), time |-> Some(IsoTime(3600))]

MTTREvents ==
    MTTRWellFormedEvents
    \cup {[MTTRRestoreEvent EXCEPT ![k] = None] : k \in MTTRRequiredKeys}

\* restore_event with "or" for "and"
restore_event_either(branch_name, state) ==
    branch_name = default_branch \/ state = "SUCCEEDED"

\* branch_name == default_branch and state == "SUCCEEDED"
restore_event(branch_name, state) ==
    branch_name = default_branch /\ state = "SUCCEEDED"

\* lines 187-193: the creation time of the first summary, None without one
first_creation_time(ops_items) ==
    IF ops_items.OpsItemSummaries.some /\ Len(ops_items.OpsItemSummaries.v) > 0
    THEN Some(ops_items.OpsItemSummaries.v[1].CreatedTime)
    ELSE None

\* lines 180-193: the lookup of the incident source_reference; botocore
\* rejects a None filter value before it sends the request
MTTR_describe(event, env, calls, source_reference) ==
    IF ~source_reference.some THEN Raise("ParamValidationError", calls)
    ELSE IF env.describe_ops_items.kind = "raise"
         THEN Raise(env.describe_ops_items.exc,
                    Append(calls, [api |-> "describe_ops_items",
                                   OpsItemId |-> source_reference]))
    ELSE [kind |-> "ok", final_time |-> event.time,
          calls |-> Append(calls, [api |-> "describe_ops_items",
                                   OpsItemId |-> source_reference]),
          creation_time |-> first_creation_time(env.describe_ops_items)]

\* lines 173-196: the incident lookup.  Returns the locals it leaves
\* (creation_time, final_time, calls) or the exception it raises.
MTTR_lookup(event, env, calls) ==
    IF restore_event(event.branch_name.v, event.state.v)
    THEN IF ~event.time.some THEN Raise("KeyError", calls)
         ELSE MTTR_describe(event, env, calls,
                            extract_source_branch_name(event.commit_message.v))
    ELSE [kind |-> "ok", final_time |-> None, calls |-> calls,
          creation_time |-> None]

\* lines 198-227: the model of the repository decides what is tested
MTTR_decide(env, calls, trunk, stage_details, downtime_seconds) ==
    IF ~trunk.ok THEN Raise(trunk.exc, calls)
    ELSE IF trunk.val
    THEN IF ~stage_details.some THEN Raise("TypeError", calls)
         ELSE IF deploy_stage_success(stage_details.v)
              THEN IF ~downtime_seconds.ok THEN Raise(downtime_seconds.exc, calls)
                   ELSE IF downtime_seconds.val # 0
                        THEN AfterPublish(
                                 Ack200("Mean time to restore metric updated successfully"),
                                 calls,
                                 send_to_cloudwatch(env.cloudwatch, downtime_seconds.val))
                        ELSE Ret(Ack200("Mean time to restore metric updated successfully"),
                                 calls)
              ELSE Ret(Ack200("Mean time to restore metric updated successfully"), calls)
    ELSE IF ~downtime_seconds.ok THEN Raise(downtime_seconds.exc, calls)
         ELSE AfterPublish(Ack200("Mean time to restore metric updated successfully"),
                           calls,
                           send_to_cloudwatch(env.cloudwatch, downtime_seconds.val))

\* lines 197-227: fetch the stage details, then decide
MTTR_after_lookup(event, env, found) ==
    IF found.kind = "raise" THEN found
    ELSE MTTR_decide(env, Append(found.calls, Call("get_pipeline_state")),
                     repo_in_app_repo_list(event.repository_name),
                     get_stage_details(env.get_pipeline_state),
                     calculate_downtime(found.creation_time, found.final_time))

\* lambda_handler of dora_custom_mean_time_to_restore_metric
MTTR_lambda_handler(event, env) ==
    IF \E k \in MTTRRequiredKeys : ~event[k].some THEN Raise("KeyError", <<>>)
    ELSE IF env.get_pipeline.kind = "raise"
         THEN IF env.get_pipeline.exc = "PipelineNotFoundException"
              THEN Ret(Ack500("Pipeline not found"), <<Call("get_pipeline")>>)
              ELSE Raise(env.get_pipeline.exc, <<Call("get_pipeline")>>)
    ELSE MTTR_after_lookup(event, env,
                           MTTR_lookup(event, env, <<Call("get_pipeline")>>))

\* ---------------------------------------------------------------- Athena
timeout == 300   \* seconds the query may take

QueryStates == {"QUEUED", "RUNNING", "SUCCEEDED", "FAILED", "CANCELLED"}

\* the VarCharValue of the first cell of the first data row
CommitTimeStrings ==
    {IsoTime(t) : t \in Times} \cup {NaiveTime(0), BadTime, EmptyString}

HeaderRow == [Data |-> <<[VarCharValue |-> Some([fmt |-> "header"])]>>]
DataRow(cell) == [Data |-> <<cell>>]

\* ResultSet.Rows of get_query_results: nothing, the header alone, a data
\* row without cells, with a NULL cell, with a value
ResultRows ==
    {<<>>, <<HeaderRow>>, <<HeaderRow, [Data |-> <<>>]>>,
     <<HeaderRow, DataRow([VarCharValue |-> None])>>}
    \cup {<<HeaderRow, DataRow([VarCharValue |-> Some(s)])>> : s \in CommitTimeStrings}

\* answers of the Athena client in one invocation: start_query_execution,
\* the one get_query_execution, the seconds the clock shows to have passed
\* when the loop tests the timeout, get_query_results
AthenaResponses ==
    {[start |-> "raise", state |-> "QUEUED", elapsed |-> 0, results |-> None]}
    \cup [start : {"ok"}, state : {"raise"}, elapsed : {0}, results : {None}]
    \cup [start : {"ok"}, state : QueryStates \ {"SUCCEEDED"},
          elapsed : {0, timeout + 1}, results : {None}]
    \cup [start : {"ok"}, state : {"SUCCEEDED"}, elapsed : {timeout + 1},
          results : {None}]
    \cup [start : {"ok"}, state : {"SUCCEEDED"}, elapsed : {0},
          results : {None} \cup {Some(r) : r \in ResultRows}]

\* first_value reading the header row
first_value_header_row(rows) ==
    IF /\ Len(rows) >= 1
       /\ Len(rows[1].Data) > 0
       /\ rows[1].Data[1].VarCharValue.some
       /\ rows[1].Data[1].VarCharValue.v # EmptyString
    THEN rows[1].Data[1].VarCharValue
    ELSE None

\* lines 190-195: the VarCharValue of the first cell of the first data
\* row, None when the row, the cell or the value is missing or empty
first_value(rows) ==
    IF /\ Len(rows) >= 2
       /\ Len(rows[2].Data) > 0
       /\ rows[2].Data[1].VarCharValue.some
       /\ rows[2].Data[1].VarCharValue.v # EmptyString
    THEN rows[2].Data[1].VarCharValue
    ELSE None

\* the calls of query_athena_for_commits, up to and including api
AthenaCalls(api) ==
    IF api = "start_query_execution" THEN <<Call("start_query_execution")>>
    ELSE IF api = "get_query_execution"
         THEN <<Call("start_query_execution"), Call("get_query_execution")>>
    ELSE <<Call("start_query_execution"), Call("get_query_execution"),
           Call("get_query_results")>>

\* query_athena_for_commits: the earliest commit time string or None; the
\* process exits when the query failed or timed out.  results = None is
\* get_query_results raising.
query_athena_for_commits(athena) ==
    IF athena.start = "raise"
    THEN Raise("ClientError", AthenaCalls("start_query_execution"))
    ELSE IF athena.state = "raise"
         THEN Raise("ClientError", AthenaCalls("get_query_execution"))
    ELSE IF athena.state = "FAILED" THEN Exit(AthenaCalls("get_query_execution"))
    ELSE IF athena.elapsed > timeout THEN Exit(AthenaCalls("get_query_execution"))
    ELSE IF athena.state # "SUCCEEDED"
         THEN [kind |-> "ok", val |-> None, calls |-> AthenaCalls("get_query_execution")]
    ELSE IF ~athena.results.some
         THEN [kind |-> "ok", val |-> None, calls |-> AthenaCalls("get_query_results")]
    ELSE [kind |-> "ok", val |-> first_value(athena.results.v),
          calls |-> AthenaCalls("get_query_results")]

\* ------------------------------------------------------------- lead time
\* lines 204-216: the two datetimes, or None when a parse raised
both_parsed(pipeline_event_time_new, earliest_commit_time_new) ==
    IF pipeline_event_time_new.ok /\ earliest_commit_time_new.ok
    THEN Some(<<pipeline_event_time_new.val, earliest_commit_time_new.val>>)
    ELSE None

\* calculate_lead_time: the two parsed datetimes, or None when a parse fails
calculate_lead_time(earliest_commit_time, pipeline_event_time) ==
    both_parsed(parse(pipeline_event_time), parse(earliest_commit_time))

\* lead_time_for_change_metric(duration_seconds), duration_seconds not None
lead_time_for_change_metric(mode, duration_seconds) ==
    put_metric_data(mode, "DORA", "LeadTimeForChange", "Seconds", duration_seconds)

\* detail.pipeline, execution-trigger commit-id and full-repository-name,
\* top-level time; None = key absent
LTEvents ==
    [pipeline : {Some("github-dora-test")},
     commit_id : {Some("c0ffee")},
     repository_name : {Some(r) : r \in RepositoryNames},
     time : {None} \cup EventTimes]
    \cup {[pipeline |-> None, commit_id |-> Some("c0ffee"),
           repository_name |-> Some(repo1), time |-> Some(IsoTime(3600))],
          [pipeline |-> Some("github-dora-test"), commit_id |-> None,
           repository_name |-> Some(repo1), time |-> Some(IsoTime(3600))],
          [pipeline |-> Some("github-dora-test"), commit_id |-> Some("c0ffee"),
           repository_name |-> None, time |-> Some(IsoTime(3600))]}

\* LT_decide without the test of the duration before the publication
LT_decide_publish_zero(env, calls, trunk, stage_details, duration_seconds) ==
    IF ~trunk.ok THEN Raise(trunk.exc, calls)
    ELSE IF trunk.val /\ ~stage_details.some THEN Raise("TypeError", calls)
    ELSE IF trunk.val /\ ~deploy_stage_success(stage_details.v)
         THEN Ret([status |-> "success"], calls)
    ELSE IF ~duration_seconds.ok THEN Raise(duration_seconds.exc, calls)
    ELSE AfterPublish([status |-> "success"], calls,
             lead_time_for_change_metric(env.cloudwatch, duration_seconds.val))

\* lines 89-113: the model of the repository decides what is tested
LT_decide(env, calls, trunk, stage_details, duration_seconds) ==
    IF ~trunk.ok THEN Raise(trunk.exc, calls)
    ELSE IF trunk.val /\ ~stage_details.some THEN Raise("TypeError", calls)
    ELSE IF trunk.val /\ ~deploy_stage_success(stage_details.v)
         THEN Ret([status |-> "success"], calls)
    ELSE IF ~duration_seconds.ok THEN Raise(duration_seconds.exc, calls)
    ELSE IF duration_seconds.val # 0
         THEN AfterPublish([status |-> "success"], calls,
                  lead_time_for_change_metric(env.cloudwatch, duration_seconds.val))
         ELSE Ret([status |-> "success"], calls)

\* LT_with_times with the stage details fetched before the query
LT_with_times_state_first(event, env, calls, times) ==
    IF ~times.some THEN Raise("TypeError", calls)
    ELSE LT_decide(env, <<Call("get_pipeline_state")>> \o calls,
                   repo_in_app_repo_list(event.repository_name),
                   get_stage_details(env.get_pipeline_state),
                   total_seconds_between(times.v[1], Some(times.v[2])))

\* lines 84-113: unpack the two datetimes, fetch the stage details, decide
LT_with_times(event, env, calls, times) ==
    IF ~times.some THEN Raise("TypeError", calls)
    ELSE LT_decide(env, Append(calls, Call("get_pipeline_state")),
                   repo_in_app_repo_list(event.repository_name),
                   get_stage_details(env.get_pipeline_state),
                   total_seconds_between(times.v[1], Some(times.v[2])))

\* lines 76-113: after the query
LT_after_query(event, env, earliest_commit_time) ==
    IF earliest_commit_time.kind # "ok" THEN earliest_commit_time
    ELSE LT_with_times(event, env, earliest_commit_time.calls,
                       calculate_lead_time(earliest_commit_time.val, event.time))

\* the try block of lambda_handler
LT_try(event, env) ==
    IF \/ ~event.pipeline.some \/ ~event.commit_id.some
       \/ ~event.repository_name.some \/ ~event.time.some
    THEN Raise("KeyError", <<>>)
    ELSE LT_after_query(event, env, query_athena_for_commits(env.athena))

\* LT_except with a bare except clause, which catches SystemExit too
LT_except_bare(r) ==
    IF r.kind \in {"raise", "exit"} THEN Ret([status |-> "success"], r.calls)
    ELSE r

\* LT_except re-raising what it caught
LT_except_reraise(r) == r

\* except KeyError / except Exception: log, then return success; SystemExit
\* is not caught
LT_except(r) ==
    IF r.kind = "raise" THEN Ret([status |-> "success"], r.calls)
    ELSE r

\* lambda_handler of dora_custom_lead_time_for_change_metric
LT_lambda_handler(event, env) == LT_except(LT_try(event, env))

\* ------------------------------------------------------- the invocations
\* Run with a handler that publishes once per event: a delivery after the
\* first puts no sample
Run_deduplicated(handler, event, env) ==
    LET r == CASE handler = "DF" -> DF_lambda_handler(event, env)
               [] handler = "LT" -> LT_lambda_handler(event, env)
               [] handler = "CFR" -> CFR_lambda_handler(event, env)
               [] handler = "MTTR" -> MTTR_lambda_handler(event, env)
    IN  IF phase = "done"
        THEN [r EXCEPT !.calls = SelectSeq(r.calls, LAMBDA c : c.api # "put_metric_data")]
        ELSE r

Run(handler, event, env) ==
    CASE handler = "DF" -> DF_lambda_handler(event, env)
      [] handler = "LT" -> LT_lambda_handler(event, env)
      [] handler = "CFR" -> CFR_lambda_handler(event, env)
      [] handler = "MTTR" -> MTTR_lambda_handler(event, env)

Asked(api, outcome) ==
    \E i \in 1..Len(outcome.calls) : outcome.calls[i].api = api

\* a service that is not called in an invocation gives no answer
NotCalled == [kind |-> "not_called"]

NoAnswers ==
    [get_pipeline |-> NotCalled, describe_ops_items |-> NotCalled,
     athena |-> NotCalled, get_pipeline_state |-> NotCalled,
     cloudwatch |-> "not_called"]

\* env with an answer for every call, to find the next call the handler makes
Probe(env) ==
    [get_pipeline |->
        IF env.get_pipeline = NotCalled
        THEN [kind |-> "ok", stages |-> <<>>] ELSE env.get_pipeline,
     describe_ops_items |->
        IF env.describe_ops_items = NotCalled
        THEN [kind |-> "ok", OpsItemSummaries |-> None] ELSE env.describe_ops_items,
     athena |->
        IF env.athena = NotCalled
        THEN [start |-> "ok", state |-> "RUNNING", elapsed |-> 0, results |-> None]
        ELSE env.athena,
     get_pipeline_state |->
        IF env.get_pipeline_state = NotCalled
        THEN [kind |-> "ok", stageStates |-> None] ELSE env.get_pipeline_state,
     cloudwatch |->
        IF env.cloudwatch = "not_called" THEN "ok" ELSE env.cloudwatch]

Drawn(api, handler, event, env, responses) ==
    IF Asked(api, Run(handler, event, Probe(env))) THEN responses ELSE {NotCalled}

DrawnMode(handler, event, env) ==
    IF Asked("put_metric_data", Run(handler, event, Probe(env)))
    THEN CloudWatchModes ELSE {"not_called"}

NoInvocation == [handler |-> "none"]
NoOutcome == [kind |-> "none"]
\* a pipeline that has never run: no execution started, none running, no
\* stage with a latestExecution, no deployment made, no event to deliver
NoPipeline ==
    [executions |-> 0, running |-> FALSE, source |-> None, prod |-> None,
     deployed |-> 0, pending |-> <<>>]

\* module load: the configuration is read once from the environment
Init ==
    /\ app_repo_list \in AppRepoListValues
    /\ phase = "idle"
    /\ inv = NoInvocation
    /\ out = NoOutcome
    /\ delivered = <<>>
    /\ codepipeline = NoPipeline
    /\ workers = <<>>
    /\ queries = <<>>

\* one invocation of a handler: each service answers the calls the handler
\* makes, in the order it makes them; the outcome is what the handler computes
Invoke(handler, event, pipelines) ==
    \E gp \in Drawn("get_pipeline", handler, event, NoAnswers, pipelines) :
    LET e1 == [NoAnswers EXCEPT !.get_pipeline = gp] IN
    \E ops \in Drawn("describe_ops_items", handler, event, e1, DescribeOpsItemsResponses) :
    LET e2 == [e1 EXCEPT !.describe_ops_items = ops] IN
    \E ath \in Drawn("start_query_execution", handler, event, e2, AthenaResponses) :
    LET e3 == [e2 EXCEPT !.athena = ath] IN
    \E st \in Drawn("get_pipeline_state", handler, event, e3, GetPipelineStateResponses) :
    LET e4 == [e3 EXCEPT !.get_pipeline_state = st] IN
    \E cw \in DrawnMode(handler, event, e4) :
    LET env == [e4 EXCEPT !.cloudwatch = cw] IN
        /\ phase' = "done"
        /\ inv' = [handler |-> handler, event |-> event, env |-> env]
        /\ out' = Run(handler, event, env)
        /\ UNCHANGED <<app_repo_list, delivered, codepipeline, workers, queries>>

DeploymentFrequency ==
    /\ phase = "idle"
    /\ \E event \in DFEvents : Invoke("DF", event, GetPipelineResponses)

LeadTimeForChange ==
    /\ phase = "idle"
    /\ \E event \in LTEvents : Invoke("LT", event, GetPipelineResponses)

ChangeFailureRate ==
    /\ phase = "idle"
    /\ \E event \in CFREvents : Invoke("CFR", event, GetPipelineResponses)

MeanTimeToRestore ==
    /\ phase = "idle"
    /\ \E event \in MTTREvents : Invoke("MTTR", event, GetPipelineResponsesUnread)

\* the invocation is over; nothing of it is kept for the next one
Finish ==
    /\ phase = "done"
    /\ phase' = "idle"
    /\ inv' = NoInvocation
    /\ out' = NoOutcome
    /\ UNCHANGED <<app_repo_list, delivered, codepipeline, workers, queries>>

Next ==
    \/ DeploymentFrequency
    \/ LeadTimeForChange
    \/ ChangeFailureRate
    \/ MeanTimeToRestore
    \/ Finish

Spec == Init /\ [][Next]_vars

\* ---------------------------------- extract_source_branch_name on its own
MaxTokens == 6   \* words of a commit message

\* the words commit messages are made of
Tokens ==
    {<<"f","r","o","m"," ">>, <<"f","i","x">>, <<"h","o","t","f","i","x">>,
     <<"i","7">>, <<"/">>, <<"\n">>}

\* a call of extract_source_branch_name(commit_message) with a message of
\* up to MaxTokens words; the outcome is the value it returns
ExtractSourceBranchName ==
    /\ phase = "idle"
    /\ \E words \in SeqsUpTo(Tokens, MaxTokens) :
         /\ inv' = [handler |-> "extract_source_branch_name",
                    commit_message |-> str_join(<<>>, words)]
         /\ out' = Ret(extract_source_branch_name(str_join(<<>>, words)), <<>>)
    /\ phase' = "done"
    /\ UNCHANGED <<app_repo_list, delivered, codepipeline, workers, queries>>

\* the function reads no module global: the repository list is left unset
InitExtract ==
    /\ app_repo_list = None
    /\ phase = "idle"
    /\ inv = NoInvocation
    /\ out = NoOutcome
    /\ delivered = <<>>
    /\ codepipeline = NoPipeline
    /\ workers = <<>>
    /\ queries = <<>>

NextExtract == ExtractSourceBranchName \/ Finish

SpecExtract == InitExtract /\ [][NextExtract]_vars

\* module load with the repository list the unit tests export
InitConfigured ==
    /\ app_repo_list = Some(app_repo_names_joined)
    /\ phase = "idle"
    /\ inv = NoInvocation
    /\ out = NoOutcome
    /\ delivered = <<>>
    /\ codepipeline = NoPipeline
    /\ workers = <<>>
    /\ queries = <<>>

\* ------------------------------------------- one event delivered again
MaxDeliveries == 2   \* deliveries of one event

\* the event of the last invocation is delivered once more; the services
\* answer as they did, and the handler runs as it ran the first time: it
\* keeps nothing of the deliveries before
Redeliver ==
    /\ phase = "done"
    /\ Len(delivered) + 1 < MaxDeliveries
    /\ delivered' = Append(delivered, Run(inv.handler, inv.event, inv.env))
    /\ UNCHANGED <<app_repo_list, phase, inv, out, codepipeline, workers, queries>>

NextRedeliver ==
    \/ DeploymentFrequency
    \/ LeadTimeForChange
    \/ ChangeFailureRate
    \/ MeanTimeToRestore
    \/ Redeliver

SpecRedeliver == InitConfigured /\ [][NextRedeliver]_vars

\* ------------------------------- the executions of a trunk-based pipeline
MaxExecutions == 2   \* executions the pipeline starts

\* get_pipeline of the pipeline: its Source action names a configured
\* repository
TrunkPipeline ==
    [kind |-> "ok",
     stages |-> << [name |-> "Source",
                    actions |-> <<SourceAction(Some("main"), Some(app1))>>],
                   [name |-> "Build", actions |-> <<BuildAction>>] >>]

\* get_pipeline_state: every stage shows the status of the last execution
\* that entered it
PipelineState ==
    [kind |-> "ok",
     stageStates |-> Some(<< [stageName |-> "Source", latestExecution |-> codepipeline.source],
                             [stageName |-> app_prod_stage_name,
                              latestExecution |-> codepipeline.prod] >>)]

\* the rule forwards every "CodePipeline Pipeline Execution State Change"
\* event, whatever its state
Emit(state) == <<[state |-> Some(state), pipeline |-> Some("github-dora-test")]>>

\* a new execution starts when the one before has ended; the production
\* stage keeps the status the execution before left
StartExecution ==
    /\ codepipeline.pending = <<>>
    /\ ~codepipeline.running
    /\ codepipeline.executions < MaxExecutions
    /\ codepipeline' = [codepipeline EXCEPT !.executions = @ + 1, !.running = TRUE,
                                            !.source = Some("InProgress"),
                                            !.pending = Emit("STARTED")]
    /\ UNCHANGED <<app_repo_list, phase, inv, out, delivered, workers, queries>>

\* the Source stage ends: a failure ends the execution, a success moves
\* it into the production stage
SourceStage ==
    /\ codepipeline.pending = <<>>
    /\ codepipeline.running
    /\ codepipeline.source = Some("InProgress")
    /\ \/ codepipeline' = [codepipeline EXCEPT !.source = Some("Failed"),
                                               !.running = FALSE,
                                               !.pending = Emit("FAILED")]
       \/ codepipeline' = [codepipeline EXCEPT !.source = Some("Succeeded"),
                                               !.prod = Some("InProgress")]
    /\ UNCHANGED <<app_repo_list, phase, inv, out, delivered, workers, queries>>

\* the production stage ends, and the execution with it
ProdStage ==
    /\ codepipeline.pending = <<>>
    /\ codepipeline.running
    /\ codepipeline.prod = Some("InProgress")
    /\ \/ codepipeline' = [codepipeline EXCEPT !.prod = Some("Failed"),
                                               !.running = FALSE,
                                               !.pending = Emit("FAILED")]
       \/ codepipeline' = [codepipeline EXCEPT !.prod = Some("Succeeded"),
                                               !.running = FALSE,
                                               !.deployed = @ + 1,
                                               !.pending = Emit("SUCCEEDED")]
    /\ UNCHANGED <<app_repo_list, phase, inv, out, delivered, workers, queries>>

\* the deployment-frequency handler is invoked with the event, once, before
\* the pipeline moves on; it reads the pipeline as it is now
HandleExecutionEvent ==
    /\ codepipeline.pending # <<>>
    /\ \E cw \in CloudWatchModes :
         delivered' = Append(delivered,
             DF_lambda_handler(Head(codepipeline.pending),
                 [NoAnswers EXCEPT !.get_pipeline = TrunkPipeline,
                                   !.get_pipeline_state = PipelineState,
                                   !.cloudwatch = cw]))
    /\ codepipeline' = [codepipeline EXCEPT !.pending = Tail(@)]
    /\ UNCHANGED <<app_repo_list, phase, inv, out, workers, queries>>

NextExecutions ==
    \/ StartExecution
    \/ SourceStage
    \/ ProdStage
    \/ HandleExecutionEvent

SpecExecutions == InitConfigured /\ [][NextExecutions]_vars

\* ------------------------------------- lead-time invocations side by side
MaxWorkers == 2   \* invocations running at the same time

\* lead-time events of two commits, and one without the top-level time
ConcurrentEvents ==
    {[pipeline |-> Some("github-dora-test"), commit_id |-> Some(c),
      repository_name |-> Some(repo1), time |-> Some(IsoTime(3600))] :
        c \in {"c0ffee", "decaf"}}
    \cup {[pipeline |-> Some("github-dora-test"), commit_id |-> Some("c0ffee"),
           repository_name |-> Some(repo1), time |-> None]}

\* what Athena answers for one query execution
ConcurrentQueries ==
    {[start |-> "raise", state |-> "QUEUED", elapsed |-> 0, results |-> None],
     [start |-> "ok", state |-> "FAILED", elapsed |-> 0, results |-> None],
     [start |-> "ok", state |-> "RUNNING", elapsed |-> 0, results |-> None],
     [start |-> "ok", state |-> "SUCCEEDED", elapsed |-> 0,
      results |-> Some(<<HeaderRow>>)]}
    \cup {[start |-> "ok", state |-> "SUCCEEDED", elapsed |-> 0,
           results |-> Some(<<HeaderRow, DataRow([VarCharValue |-> Some(IsoTime(t))])>>)] :
            t \in {0, 1800}}

\* the answers an invocation gets: its query's, a pipeline state without
\* stageStates, a metric sink that accepts
AnswersWith(query) ==
    [NoAnswers EXCEPT !.athena = query,
                      !.get_pipeline_state = [kind |-> "ok", stageStates |-> None],
                      !.cloudwatch = "ok"]

\* query_execution_id kept in one place for all invocations: the id of the
\* query submitted last
query_execution_id_last_submitted(i) == Len(queries)

\* response["QueryExecutionId"], a local of query_athena_for_commits: the
\* id start_query_execution returned to this invocation
query_execution_id(i) == workers[i].query_execution_id

\* lines 59-160 in invocation i: the handler reads the event and submits
\* its query; Athena keeps the query under a new id.  A missing key or a
\* refused submission ends the invocation here.
Submit(i) ==
    /\ workers[i].pc = "idle"
    /\ \E event \in ConcurrentEvents, query \in ConcurrentQueries :
         IF ~event.time.some \/ query.start = "raise"
         THEN /\ workers' = [workers EXCEPT ![i] =
                    [pc |-> "done", event |-> event, env |-> AnswersWith(query),
                     out |-> LT_lambda_handler(event, AnswersWith(query))]]
              /\ UNCHANGED queries
         ELSE /\ workers' = [workers EXCEPT ![i] =
                    [pc |-> "polling", event |-> event, env |-> AnswersWith(query),
                     query_execution_id |-> Len(queries) + 1]]
              /\ queries' = Append(queries, query)
    /\ UNCHANGED <<app_repo_list, phase, inv, out, delivered, codepipeline>>

\* lines 162-199 and 84-119 in invocation i: the state and the results of the query
\* are read under the invocation's id, then the handler runs to its end
Collect(i) ==
    /\ workers[i].pc = "polling"
    /\ workers' = [workers EXCEPT ![i] =
            [pc |-> "done", event |-> workers[i].event, env |-> workers[i].env,
             query_execution_id |-> workers[i].query_execution_id,
             out |-> LT_except(LT_after_query(workers[i].event, workers[i].env,
                        query_athena_for_commits(queries[query_execution_id(i)])))]]
    /\ UNCHANGED <<app_repo_list, phase, inv, out, delivered, codepipeline, queries>>

\* module load; no invocation has begun
InitConcurrent ==
    /\ app_repo_list = Some(app_repo_names_joined)
    /\ phase = "idle"
    /\ inv = NoInvocation
    /\ out = NoOutcome
    /\ delivered = <<>>
    /\ codepipeline = NoPipeline
    /\ workers = [i \in 1..MaxWorkers |-> [pc |-> "idle"]]
    /\ queries = <<>>

NextConcurrent ==
    \/ \E i \in 1..MaxWorkers : Submit(i)
    \/ \E i \in 1..MaxWorkers : Collect(i)

SpecConcurrent == InitConcurrent /\ [][NextConcurrent]_vars

\* ================================================================ claims
\* the metric-sink calls of an outcome, and the samples they carry
Puts(o) == SelectSeq(o.calls, LAMBDA c : c.api = "put_metric_data")
NumPuts(o) == Len(Puts(o))
Sample(c) ==
    [Namespace |-> c.Namespace, MetricName |-> c.MetricName,
     Unit |-> c.Unit, Value |-> c.Value]

\* the repository is one of the configured trunk-based repository names
Configured(repository_name) ==
    \E i \in 1..Len(APP_REPOSITORY_NAMES) : APP_REPOSITORY_NAMES[i] = repository_name

\* the get_pipeline_state answer is a list of stages that all have a status
\* (or has no stage-state data), and its production stage has succeeded
IsStageStatusList(response) ==
    /\ response.kind = "ok"
    /\ response.stageStates.some =>
         \A i \in 1..Len(response.stageStates.v) :
             response.stageStates.v[i].latestExecution.some
ProdStageSucceeded(response) ==
    /\ response.kind = "ok"
    /\ response.stageStates.some
    /\ \E i \in 1..Len(response.stageStates.v) :
         /\ response.stageStates.v[i].stageName = app_prod_stage_name
         /\ response.stageStates.v[i].latestExecution = Some("Succeeded")

Done(handler) == phase = "done" /\ inv.handler = handler

\* a deployment-frequency invocation with a well-formed event whose
\* pipeline has a Source action naming a repository, with the repository
\* list configured and a CloudWatch client at hand
DFResolved ==
    /\ Done("DF")
    /\ inv.event.state.some /\ inv.event.pipeline.some
    /\ inv.env.get_pipeline.kind = "ok"
    /\ extract_branch_from_pipeline_details(inv.env.get_pipeline).some
    /\ extract_branch_from_pipeline_details(inv.env.get_pipeline).v[2].some
    /\ app_repo_list.some
    /\ inv.env.cloudwatch # "client_fails"
DFBranch == extract_branch_from_pipeline_details(inv.env.get_pipeline).v[1]
DFRepository == extract_branch_from_pipeline_details(inv.env.get_pipeline).v[2].v

DeploymentFrequencySample ==
    [Namespace |-> "DORA", MetricName |-> "DeploymentFrequency",
     Unit |-> "Count", Value |-> 1]

\* C1: deployment frequency, trunk-based repository: for every event and
\* every stage-status list the platform returns, the handler makes exactly
\* one sink call, carrying the sample (DORA, DeploymentFrequency, Count, 1),
\* if a stage named app_prod_stage_name has status Succeeded, and none
\* otherwise, whatever the event's state and the source branch are.
C1_TrunkDeploymentFrequency ==
    (/\ DFResolved
     /\ Configured(DFRepository)
     /\ IsStageStatusList(inv.env.get_pipeline_state))
    => /\ out.kind = "return"
       /\ IF ProdStageSucceeded(inv.env.get_pipeline_state)
          THEN /\ NumPuts(out) = 1
               /\ Sample(Puts(out)[1]) = DeploymentFrequencySample
          ELSE NumPuts(out) = 0

\* C1 witness: a FAILED event of a configured repository on branch develop
\* whose production stage has succeeded publishes one sample
C1_Witness ==
    /\ DFResolved
    /\ Configured(DFRepository)
    /\ inv.event.state = Some("FAILED")
    /\ DFBranch = Some("develop")
    /\ ProdStageSucceeded(inv.env.get_pipeline_state)
    /\ NumPuts(out) = 1

\* C2: deployment frequency, release-branch repository (a repository that
\* is not one of the configured trunk-based names): the handler makes
\* exactly one sink call iff the event's state is SUCCEEDED and the source
\* branch is "master"; the stage statuses play no part.
C2_ReleaseBranchDeploymentFrequency ==
    (DFResolved /\ ~Configured(DFRepository))
    => /\ out.kind = "return"
       /\ IF inv.event.state = Some("SUCCEEDED") /\ DFBranch = Some("master")
          THEN NumPuts(out) = 1
          ELSE NumPuts(out) = 0

\* C3: an invocation of any of the four handlers makes at most one
\* metric-sink call.
C3_AtMostOneSinkCall ==
    phase = "done" => NumPuts(out) <= 1

\* C3 witness: a lead-time invocation that made its one sink call
C3_Witness ==
    Done("LT") /\ NumPuts(out) = 1

\* C4: when get_pipeline fails (pipeline not found or any other exception)
\* the deployment-frequency and the mean-time-to-restore handler return
\* statusCode 500 and make no sink call.
C4_GetPipelineFailure ==
    (/\ phase = "done"
     /\ inv.handler \in {"DF", "MTTR"}
     /\ inv.env.get_pipeline # NotCalled
     /\ inv.env.get_pipeline.kind = "raise")
    => /\ out.kind = "return"
       /\ out.ack.statusCode = 500
       /\ NumPuts(out) = 0

\* C5: a failing publish step (put_metric_data raising, or the client not
\* being created) leaves the outcome as it is when the step succeeds: same
\* ending, same acknowledgement, the calls before the publish the same, and
\* the put is not repeated.
C5_PublishFailureSwallowed ==
    (phase = "done" /\ inv.env.cloudwatch # "not_called")
    => \A mode \in CloudWatchModes :
         LET other == Run(inv.handler, inv.event, [inv.env EXCEPT !.cloudwatch = mode])
         IN  /\ other.kind = out.kind
             /\ other.ack = out.ack
             /\ NumPuts(other) <= 1
             /\ NumPuts(out) <= 1

\* C5 witness: a mean-time-to-restore invocation whose put was refused
\* returns its success acknowledgement
C5_Witness ==
    /\ Done("MTTR")
    /\ inv.env.cloudwatch = "put_fails"
    /\ NumPuts(out) = 1 /\ ~Puts(out)[1].accepted
    /\ out.kind = "return" /\ out.ack.statusCode = 200

TotalFailedItemsSample ==
    [Namespace |-> "DORA/ChangeFailureRate", MetricName |-> "TotalFailedItems",
     Unit |-> "Count", Value |-> 1]

\* C6: change failure rate: for a well-formed incident event the handler
\* returns statusCode 200 and makes one sink call, carrying
\* (DORA/ChangeFailureRate, TotalFailedItems, Count, 1), iff detail-type is
\* "OpsItem Create" and the status is "Open"; otherwise it makes none.
C6_ChangeFailureRate ==
    (/\ Done("CFR")
     /\ inv.event.detail_type.some /\ inv.event.status.some
     /\ inv.env.cloudwatch # "client_fails")
    => /\ out.kind = "return"
       /\ out.ack.statusCode = 200
       /\ IF inv.event.detail_type = Some("OpsItem Create")
             /\ inv.event.status = Some("Open")
          THEN /\ NumPuts(out) = 1
               /\ Sample(Puts(out)[1]) = TotalFailedItemsSample
          ELSE NumPuts(out) = 0

\* C6 witness: an opened incident is counted
C6_Witness ==
    /\ Done("CFR")
    /\ inv.event.detail_type = Some("OpsItem Create")
    /\ inv.event.status = Some("Open")
    /\ NumPuts(out) = 1
    /\ out.ack.statusCode = 200

\* a mean-time-to-restore invocation with a well-formed event (every key
\* present, a parsable time), the pipeline found, the repository list
\* configured
MTTRWellFormed ==
    /\ Done("MTTR")
    /\ \A k \in MTTRRequiredKeys : inv.event[k].some
    /\ inv.event.time.some /\ parse(inv.event.time).ok
    /\ inv.env.get_pipeline.kind = "ok"
    /\ app_repo_list.some
MTTRFires ==
    inv.event.branch_name = Some(default_branch) /\ inv.event.state = Some("SUCCEEDED")

\* the incident store answered and found no incident / an incident
NoIncident ==
    /\ inv.env.describe_ops_items # NotCalled
    /\ inv.env.describe_ops_items.kind = "ok"
    /\ \/ ~inv.env.describe_ops_items.OpsItemSummaries.some
       \/ inv.env.describe_ops_items.OpsItemSummaries.v = <<>>
IncidentFound ==
    /\ inv.env.describe_ops_items # NotCalled
    /\ inv.env.describe_ops_items.kind = "ok"
    /\ inv.env.describe_ops_items.OpsItemSummaries.some
    /\ inv.env.describe_ops_items.OpsItemSummaries.v # <<>>

\* C7: mean time to restore: a SUCCEEDED event on the default branch for
\* which the incident store returns no incident (the pipeline state being
\* fetched as a stage-status list) ends with the success acknowledgement,
\* without a sample and without an error, in both models.
C7_NoIncidentNoError ==
    (/\ MTTRWellFormed /\ MTTRFires /\ NoIncident
     /\ IsStageStatusList(inv.env.get_pipeline_state))
    => /\ out.kind = "return"
       /\ out.ack.statusCode = 200
       /\ NumPuts(out) = 0

\* C8: mean time to restore: for an event not on the default branch or not
\* SUCCEEDED, the incident store is not queried and no sample is published,
\* in both models and for every stage-status list.
C8_FiresOnlyOnDefaultBranchSuccess ==
    (/\ Done("MTTR")
     /\ \A k \in MTTRRequiredKeys : inv.event[k].some
     /\ ~MTTRFires)
    => /\ ~Asked("describe_ops_items", out)
       /\ NumPuts(out) = 0

\* C8 witness: a SUCCEEDED event on branch develop of a configured
\* repository whose production stage has succeeded went past the stage
\* fetch
C8_Witness ==
    /\ MTTRWellFormed
    /\ inv.event.branch_name = Some("develop")
    /\ inv.event.state = Some("SUCCEEDED")
    /\ Configured(inv.event.repository_name.v)
    /\ Asked("get_pipeline_state", out)
    /\ ProdStageSucceeded(inv.env.get_pipeline_state)

MTTRDowntime ==
    parse(inv.event.time).val.t
    - inv.env.describe_ops_items.OpsItemSummaries.v[1].CreatedTime.t

\* C9: mean time to restore, an incident found: a published value is
\* event time - incident creation time in seconds; for a trunk-based
\* repository the sample is published only if the production stage has
\* succeeded, for a release-branch repository it is always published.
C9_DowntimeValueAndGating ==
    (/\ MTTRWellFormed /\ MTTRFires /\ IncidentFound
     /\ inv.env.cloudwatch # "client_fails")
    => /\ \A i \in 1..NumPuts(out) : Puts(out)[i].Value = MTTRDowntime
       /\ Configured(inv.event.repository_name.v)
            => (NumPuts(out) >= 1 => ProdStageSucceeded(inv.env.get_pipeline_state))
       /\ ~Configured(inv.event.repository_name.v) => NumPuts(out) = 1

\* a lead-time invocation with a well-formed event and an earliest commit
\* time found by the query, both times parsable and comparable, the
\* repository list configured
LTCommitTimeFound ==
    /\ Done("LT")
    /\ inv.event.pipeline.some /\ inv.event.commit_id.some
    /\ inv.event.repository_name.some /\ inv.event.time.some
    /\ query_athena_for_commits(inv.env.athena).kind = "ok"
    /\ query_athena_for_commits(inv.env.athena).val.some
    /\ calculate_lead_time(query_athena_for_commits(inv.env.athena).val,
                           inv.event.time).some
    /\ parse(query_athena_for_commits(inv.env.athena).val).val.aware
    /\ app_repo_list.some
LTDuration ==
    parse(inv.event.time).val.t
    - parse(query_athena_for_commits(inv.env.athena).val).val.t

\* C10: lead time, an earliest commit time found: a published value is
\* event time - earliest commit time in seconds; for a trunk-based
\* repository the sample is published only if the production stage has
\* succeeded, for a release-branch repository it is published whenever
\* the duration is computed (a duration of zero is not a sample).
C10_LeadTimeValueAndGating ==
    (LTCommitTimeFound /\ inv.env.cloudwatch # "client_fails")
    => /\ \A i \in 1..NumPuts(out) : Puts(out)[i].Value = LTDuration
       /\ Configured(inv.event.repository_name.v)
            => (NumPuts(out) >= 1 => ProdStageSucceeded(inv.env.get_pipeline_state))
       /\ (~Configured(inv.event.repository_name.v) /\ LTDuration # 0)
            => NumPuts(out) = 1

\* a lead-time invocation computes a duration: the event is well formed,
\* the query returns an earliest commit time, both times parse and can be
\* subtracted
LTDurationComputed ==
    /\ Done("LT")
    /\ inv.event.pipeline.some /\ inv.event.commit_id.some
    /\ inv.event.repository_name.some /\ inv.event.time.some
    /\ query_athena_for_commits(inv.env.athena).kind = "ok"
    /\ query_athena_for_commits(inv.env.athena).val.some
    /\ calculate_lead_time(query_athena_for_commits(inv.env.athena).val,
                           inv.event.time).some
    /\ total_seconds_between(
           parse(inv.event.time).val,
           Some(parse(query_athena_for_commits(inv.env.athena).val).val)).ok

\* C11: lead time never publishes a zero-valued sample: no sink call of a
\* lead-time invocation carries the value 0, and when the duration is zero
\* (event time = earliest commit time) or is not computed, the invocation
\* makes no sink call, in both release models.
C11_NoZeroLeadTimeSample ==
    Done("LT")
    => /\ \A i \in 1..NumPuts(out) : Puts(out)[i].Value # 0
       /\ (~LTDurationComputed \/ LTDuration = 0) => NumPuts(out) = 0

\* C11 witness: a release-branch repository whose event time equals the
\* earliest commit time reaches the decision and returns without a sample
C11_Witness ==
    /\ LTDurationComputed
    /\ LTDuration = 0
    /\ app_repo_list.some
    /\ inv.event.repository_name = Some(repo1)
    /\ Asked("get_pipeline_state", out)
    /\ out.kind = "return"
    /\ NumPuts(out) = 0

\* the repository name an invocation resolves the release model of: the
\* Source action's RepositoryName (deployment frequency) or the event's
\* full-repository-name (lead time, mean time to restore); the invocation
\* reaches the resolution right after it has fetched the stage details
ReachesResolution ==
    /\ phase = "done"
    /\ inv.handler \in {"DF", "LT", "MTTR"}
    /\ Asked("get_pipeline_state", out)
ResolvedRepository ==
    IF inv.handler = "DF"
    THEN extract_branch_from_pipeline_details(inv.env.get_pipeline).v[2]
    ELSE inv.event.repository_name

\* C12: branch model resolution is an exact-match membership test: for
\* every repository name an invocation resolves, the resolution does not
\* fail and says trunk-based iff the name equals one of the configured
\* trunk-based repository names (a name that is only a part of a
\* configured name or of the serialized list is release-branch).
C12_ExactMatchResolution ==
    (ReachesResolution /\ ResolvedRepository.some)
    => /\ repo_in_app_repo_list(ResolvedRepository).ok
       /\ repo_in_app_repo_list(ResolvedRepository).val
            = Configured(ResolvedRepository.v)

\* slash-free words an incident id is made of
IncidentIds == {<<"i","7">>, <<"f","i","x">>, <<"h","o","t","f","i","x">>}

EndsWith(s, t) ==
    Len(s) >= Len(t) /\ SubSeq(s, Len(s) - Len(t) + 1, Len(s)) = t

\* C13: three-segment rule: for a commit message ending in "from P/X/S"
\* with P and S both in {fix, hotfix}, extract_source_branch_name returns
\* the middle segment X.
C13_ThreeSegmentRule ==
    Done("extract_source_branch_name")
    => \A P \in known_prefixes, S \in known_suffixes, X \in IncidentIds :
         EndsWith(inv.commit_message,
                  <<"f","r","o","m"," ">> \o P \o <<"/">> \o X \o <<"/">> \o S)
         => out.ack = Some(X)

\* "from " stands at position i of m
FromAt(m, i) ==
    /\ i + 4 <= Len(m)
    /\ m[i] = "f" /\ m[i + 1] = "r" /\ m[i + 2] = "o" /\ m[i + 3] = "m"
    /\ m[i + 4] = " "

\* m has a clause "from <x>/<y>": "from ", a non-empty text x without "/",
\* a "/", and at least one character y on the same line
HasFromClause(m) ==
    \E i \in 1..Len(m) :
        /\ FromAt(m, i)
        /\ \E j \in (i + 6)..(Len(m) - 1) :
             /\ m[j] = "/"
             /\ m[j + 1] # "\n"
             /\ \A k \in (i + 5)..(j - 1) : m[k] # "/"

\* C14: last-segment rule and absence.  (a) When the first "from " of the
\* message is followed by A/B, A non-empty and without "/", B non-empty,
\* without "/" and running to the end of its line, the function returns B.
\* (b) For a message without a "from <x>/<y>" clause it returns None.
\* (c) A returned value contains no "/" and is a part of the text that
\* follows a "from " of the message.
C14_LastSegmentRuleAndAbsence ==
    Done("extract_source_branch_name")
    => /\ \A i \in 1..Len(inv.commit_message) :
            (/\ FromAt(inv.commit_message, i)
             /\ \A h \in 1..(i - 1) : ~FromAt(inv.commit_message, h))
            => \A j \in (i + 6)..Len(inv.commit_message) :
                 (/\ inv.commit_message[j] = "/"
                  /\ \A k \in (i + 5)..(j - 1) : inv.commit_message[k] # "/")
                 => \A e \in (j + 1)..Len(inv.commit_message) :
                      (/\ \A k \in (j + 1)..e :
                             inv.commit_message[k] \notin {"/", "\n"}
                       /\ \/ e = Len(inv.commit_message)
                          \/ inv.commit_message[e + 1] = "\n")
                      => out.ack = Some(SubSeq(inv.commit_message, j + 1, e))
       /\ ~HasFromClause(inv.commit_message) => out.ack = None
       /\ out.ack.some
            => /\ \A k \in 1..Len(out.ack.v) : out.ack.v[k] # "/"
               /\ \E i \in 1..Len(inv.commit_message) :
                    /\ FromAt(inv.commit_message, i)
                    /\ IsSubstring(out.ack.v,
                                   SubSeq(inv.commit_message, i + 5,
                                          Len(inv.commit_message)))

\* C14 witness: "from fix/i7" followed by a second line yields "i7"
C14_Witness ==
    /\ Done("extract_source_branch_name")
    /\ inv.commit_message
         = <<"f","r","o","m"," ","f","i","x","/","i","7","\n","f","i","x">>
    /\ out.ack = Some(<<"i","7">>)

\* the event of the invocation lacks a key its handler reads (the
\* mean-time-to-restore handler reads "time" only for a SUCCEEDED event on
\* the default branch)
MissingKey ==
    /\ phase = "done"
    /\ CASE inv.handler = "DF" -> ~inv.event.state.some \/ ~inv.event.pipeline.some
         [] inv.handler = "CFR" -> ~inv.event.detail_type.some \/ ~inv.event.status.some
         [] inv.handler = "LT" ->
              \/ ~inv.event.pipeline.some \/ ~inv.event.commit_id.some
              \/ ~inv.event.repository_name.some \/ ~inv.event.time.some
         [] inv.handler = "MTTR" ->
              \/ \E k \in MTTRRequiredKeys : ~inv.event[k].some
              \/ MTTRFires /\ ~inv.event.time.some
         [] OTHER -> FALSE

\* the handler returned, and what it returned reports a failure
FailureAck(o) ==
    /\ o.kind = "return"
    /\ IF "statusCode" \in DOMAIN o.ack
       THEN o.ack.statusCode = 500
       ELSE o.ack.status # "success"

\* C15: an event that lacks a required key makes each of the four handlers
\* return a failure acknowledgement and publish no sample.
C15_MalformedEventFails ==
    MissingKey => FailureAck(out) /\ NumPuts(out) = 0

\* C16: every sink call of an invocation carries the metric identity of
\* its handler: deployment frequency (DORA, DeploymentFrequency, Count, 1),
\* lead time (DORA, LeadTimeForChange, Seconds, duration), mean time to
\* restore (DORA/MeanTimeToRestore, Downtime-OPS-Item, Seconds, downtime),
\* change failure rate (DORA/ChangeFailureRate, TotalFailedItems, Count, 1).
C16_FixedMetricIdentity ==
    phase = "done"
    => \A i \in 1..NumPuts(out) :
         /\ Puts(out)[i].Unit \in {"Count", "Seconds"}
         /\ CASE inv.handler = "DF" ->
                   Sample(Puts(out)[i]) = DeploymentFrequencySample
              [] inv.handler = "CFR" ->
                   Sample(Puts(out)[i]) = TotalFailedItemsSample
              [] inv.handler = "LT" ->
                   Sample(Puts(out)[i])
                     = [Namespace |-> "DORA", MetricName |-> "LeadTimeForChange",
                        Unit |-> "Seconds", Value |-> LTDuration]
              [] inv.handler = "MTTR" ->
                   Sample(Puts(out)[i])
                     = [Namespace |-> "DORA/MeanTimeToRestore",
                        MetricName |-> "Downtime-OPS-Item",
                        Unit |-> "Seconds", Value |-> MTTRDowntime]

\* C16 witness: a mean-time-to-restore invocation whose sample of 1800
\* seconds was accepted
C16_Witness ==
    /\ Done("MTTR")
    /\ NumPuts(out) = 1
    /\ Puts(out)[1].accepted
    /\ Puts(out)[1].Value = 1800

\* the event has every key its handler reads, the top-level time aside
KeysPresent ==
    /\ phase = "done"
    /\ CASE inv.handler = "DF" -> inv.event.state.some /\ inv.event.pipeline.some
         [] inv.handler = "CFR" -> inv.event.detail_type.some /\ inv.event.status.some
         [] inv.handler = "LT" ->
              /\ inv.event.pipeline.some /\ inv.event.commit_id.some
              /\ inv.event.repository_name.some
         [] inv.handler = "MTTR" -> \A k \in MTTRRequiredKeys : inv.event[k].some
         [] OTHER -> FALSE

\* the lead-time query was observed FAILED or timed out
QueryFailedOrTimedOut ==
    /\ inv.handler = "LT"
    /\ inv.env.athena # NotCalled
    /\ inv.env.athena.start = "ok"
    /\ inv.env.athena.state # "raise"
    /\ inv.env.athena.state = "FAILED" \/ inv.env.athena.elapsed > timeout

\* C17: whatever the services answer (calls failing, no stage list, no or
\* unparsable timestamps, no repository list configured), a handler ends
\* by returning an acknowledgement; no exception leaves it, and the only
\* other ending is the process exit on a failed or timed-out query.
C17_NoRawException ==
    KeysPresent
    => \/ out.kind = "return"
       \/ out.kind = "exit" /\ QueryFailedOrTimedOut

\* the lead-time invocation read the status of its query
QueryObserved ==
    /\ Done("LT")
    /\ Asked("get_query_execution", out)
    /\ inv.env.athena.state # "raise"

\* C18: the query client leaves its poll loop only on a terminal state or
\* on the timeout: in an invocation whose status observations end with the
\* query QUEUED or RUNNING, the timeout not exceeded, the client has not
\* returned "no commit time" to the handler.
C18_PollUntilTerminal ==
    (/\ QueryObserved
     /\ inv.env.athena.state \in {"QUEUED", "RUNNING"}
     /\ inv.env.athena.elapsed <= timeout)
    => ~(/\ query_athena_for_commits(inv.env.athena).kind = "ok"
         /\ query_athena_for_commits(inv.env.athena).val = None)

NumCalls(api, o) == Len(SelectSeq(o.calls, LAMBDA c : c.api = api))

\* C19: a query observed FAILED ends the lead-time invocation by the
\* process exit: the results and the stage status are not fetched, no
\* sample is published, the query is submitted once, and the handler does
\* not return its acknowledgement.
C19_FailedQueryAborts ==
    (QueryObserved /\ inv.env.athena.state = "FAILED")
    => /\ out.kind = "exit"
       /\ ~Asked("get_query_results", out)
       /\ ~Asked("get_pipeline_state", out)
       /\ NumPuts(out) = 0
       /\ NumCalls("start_query_execution", out) = 1

\* C19 witness: a lead-time invocation that saw its query FAILED and exited
C19_Witness ==
    /\ QueryObserved
    /\ inv.env.athena.state = "FAILED"
    /\ out.kind = "exit"
    /\ out.calls = <<Call("start_query_execution"), Call("get_query_execution")>>

\* the result rows hold a data row whose first cell has a non-empty value
HasFirstValue(results) ==
    /\ results.some
    /\ Len(results.v) >= 2
    /\ Len(results.v[2].Data) >= 1
    /\ results.v[2].Data[1].VarCharValue.some
    /\ results.v[2].Data[1].VarCharValue.v # EmptyString

\* C20: the query client fetches results only after it has observed
\* SUCCEEDED; having fetched them it returns the first cell of the row
\* after the header row, and None when there is no such row, the value is
\* empty or missing, or the fetch fails; a value it returns comes from a
\* query observed SUCCEEDED.
C20_FirstDataRowValue ==
    QueryObserved
    => /\ Asked("get_query_results", out) => inv.env.athena.state = "SUCCEEDED"
       /\ Asked("get_query_results", out)
            => /\ query_athena_for_commits(inv.env.athena).kind = "ok"
               /\ query_athena_for_commits(inv.env.athena).val
                    = IF HasFirstValue(inv.env.athena.results)
                      THEN inv.env.athena.results.v[2].Data[1].VarCharValue
                      ELSE None
       /\ (/\ query_athena_for_commits(inv.env.athena).kind = "ok"
           /\ query_athena_for_commits(inv.env.athena).val.some)
            => /\ inv.env.athena.state = "SUCCEEDED"
               /\ Asked("get_query_results", out)

\* C20 witness: a SUCCEEDED query whose first data row holds 00:30:00 gives
\* that value
C20_Witness ==
    /\ QueryObserved
    /\ inv.env.athena.state = "SUCCEEDED"
    /\ inv.env.athena.results
         = Some(<<HeaderRow, DataRow([VarCharValue |-> Some(IsoTime(1800))])>>)
    /\ Asked("get_query_results", out)
    /\ query_athena_for_commits(inv.env.athena).val = Some(IsoTime(1800))

\* the lead-time query succeeded and gave no commit time
NoCommitTime ==
    /\ QueryObserved
    /\ inv.env.athena.state = "SUCCEEDED"
    /\ inv.env.athena.elapsed <= timeout
    /\ query_athena_for_commits(inv.env.athena).kind = "ok"
    /\ query_athena_for_commits(inv.env.athena).val = None

\* the lead-time invocation of a configured repository fetched a pipeline
\* state that has no stage-state data
NoStageStateData ==
    /\ Done("LT")
    /\ Asked("get_pipeline_state", out)
    /\ inv.env.get_pipeline_state.kind = "ok"
    /\ ~inv.env.get_pipeline_state.stageStates.some
    /\ Configured(inv.event.repository_name.v)

\* C21: lead-time data gap: when the query succeeds without a commit time,
\* or the pipeline state of a trunk-based repository has no stage-state
\* data, the invocation returns {"status": "success"} and makes no sink
\* call.
C21_LeadTimeDataGap ==
    (NoCommitTime \/ NoStageStateData)
    => /\ out.kind = "return"
       /\ out.ack = [status |-> "success"]
       /\ NumPuts(out) = 0

\* C21 witness: a configured repository with a duration of 1800 s and a
\* pipeline state without stage-state data returns without a sample
C21_Witness ==
    /\ NoStageStateData
    /\ app_repo_list.some
    /\ LTDurationComputed
    /\ LTDuration = 1800
    /\ out.kind = "return"
    /\ NumPuts(out) = 0

\* a call of the Athena client raised in the lead-time invocation
QueryCallRaises ==
    /\ Done("LT")
    /\ inv.env.athena # NotCalled
    /\ \/ inv.env.athena.start = "raise"
       \/ inv.env.athena.state = "raise"
       \/ Asked("get_query_results", out) /\ ~inv.env.athena.results.some

\* the pipeline-state fetch raised in the lead-time invocation
StateFetchRaises ==
    /\ Done("LT")
    /\ inv.env.get_pipeline_state # NotCalled
    /\ inv.env.get_pipeline_state.kind = "raise"

\* the lead-time invocation returned {"status": "success"}, or exited on a
\* failed or timed-out query
LTAlwaysSuccess ==
    \/ out.kind = "return" /\ out.ack = [status |-> "success"]
    \/ out.kind = "exit" /\ QueryFailedOrTimedOut

StateFetched ==
    /\ phase = "done"
    /\ inv.handler \in {"DF", "LT", "MTTR"}
    /\ inv.env.get_pipeline_state # NotCalled
    /\ inv.env.get_pipeline_state.kind = "ok"

\* C23: get_stage_details returns the empty list when the response has no
\* stageStates, and otherwise one {name, status} entry per stage, in the
\* order of the response.
C23_StageStatuses ==
    StateFetched
    => IF ~inv.env.get_pipeline_state.stageStates.some
       THEN get_stage_details(inv.env.get_pipeline_state) = Some(<<>>)
       ELSE /\ get_stage_details(inv.env.get_pipeline_state).some
            /\ Len(get_stage_details(inv.env.get_pipeline_state).v)
                 = Len(inv.env.get_pipeline_state.stageStates.v)
            /\ \A i \in 1..Len(inv.env.get_pipeline_state.stageStates.v) :
                 /\ get_stage_details(inv.env.get_pipeline_state).v[i].name
                      = inv.env.get_pipeline_state.stageStates.v[i].stageName
                 /\ inv.env.get_pipeline_state.stageStates.v[i].latestExecution.some
                      => get_stage_details(inv.env.get_pipeline_state).v[i].status
                           = inv.env.get_pipeline_state.stageStates.v[i].latestExecution.v

\* the invocation, with the repository list configured, called
\* get_pipeline_state and the platform answered "pipeline not found"
StatePipelineNotFound ==
    /\ phase = "done"
    /\ app_repo_list.some
    /\ inv.handler \in {"DF", "LT", "MTTR"}
    /\ inv.env.get_pipeline_state
         = [kind |-> "raise", exc |-> "PipelineNotFoundException"]

\* the same invocation with a pipeline state that has no stage-state data
WithoutStageStates ==
    Run(inv.handler, inv.event,
        [inv.env EXCEPT !.get_pipeline_state = [kind |-> "ok", stageStates |-> None],
                        !.cloudwatch = IF @ = "not_called" THEN "ok" ELSE @])

\* C24: "pipeline not found" from the pipeline-state fetch reaches the
\* caller as a distinct error: the invocation ends in a failure, and its
\* result differs from that of the same invocation with a pipeline state
\* without stage-state data.
C24_PipelineNotFoundSurfaced ==
    StatePipelineNotFound
    => /\ out.kind = "raise" \/ FailureAck(out)
       /\ <<out.kind, out.ack>> # <<WithoutStageStates.kind, WithoutStageStates.ack>>

\* C25: get_stage_details never raises: when get_pipeline_state throws
\* (pipeline not found or any other exception) it returns None, and the
\* exception does not leave the lead-time or the mean-time-to-restore
\* handler.
C25_StageDetailsNeverRaises ==
    (/\ phase = "done"
     /\ inv.handler \in {"LT", "MTTR"}
     /\ inv.env.get_pipeline_state # NotCalled
     /\ inv.env.get_pipeline_state.kind = "raise")
    => /\ get_stage_details(inv.env.get_pipeline_state) = None
       /\ out.kind = "raise" => out.ack.exc # inv.env.get_pipeline_state.exc

\* C25 witness: a mean-time-to-restore invocation whose pipeline-state
\* fetch raised ClientError went on and published its sample
C25_Witness ==
    /\ Done("MTTR")
    /\ inv.env.get_pipeline_state = [kind |-> "raise", exc |-> "ClientError"]
    /\ out.kind = "return"
    /\ NumPuts(out) = 1

\* a deployment-frequency invocation that fetched the pipeline declaration
PipelineFetched ==
    /\ Done("DF")
    /\ inv.event.state.some /\ inv.event.pipeline.some
    /\ inv.env.get_pipeline.kind = "ok"

\* action j of stage i is a Source-category action of a stage named "Source"
IsSourceAction(stages, i, j) ==
    /\ stages[i].name = "Source"
    /\ stages[i].actions[j].category = "Source"

\* C26: extract_branch_from_pipeline_details returns the branch and the
\* repository of the first Source-category action of a stage named
\* "Source"; for a pipeline without one it returns a pair the caller can
\* unpack, and the handler does not fail.
C26_SourceConfigOrNotFoundPair ==
    PipelineFetched
    => /\ \A i \in 1..Len(inv.env.get_pipeline.stages) :
            \A j \in 1..Len(inv.env.get_pipeline.stages[i].actions) :
              (/\ IsSourceAction(inv.env.get_pipeline.stages, i, j)
               /\ \A h \in 1..i :
                    \A k \in 1..Len(inv.env.get_pipeline.stages[h].actions) :
                      (h < i \/ k < j)
                      => ~IsSourceAction(inv.env.get_pipeline.stages, h, k))
              => extract_branch_from_pipeline_details(inv.env.get_pipeline)
                   = Some(<<inv.env.get_pipeline.stages[i].actions[j].BranchName,
                            inv.env.get_pipeline.stages[i].actions[j].RepositoryName>>)
       /\ (\A i \in 1..Len(inv.env.get_pipeline.stages) :
             \A j \in 1..Len(inv.env.get_pipeline.stages[i].actions) :
               ~IsSourceAction(inv.env.get_pipeline.stages, i, j))
            => /\ extract_branch_from_pipeline_details(inv.env.get_pipeline).some
               /\ out.kind = "return"
               /\ out.ack.statusCode = 200

\* the calls that resolve the correlated fact of an invocation
FactCalls ==
    {"start_query_execution", "get_query_execution", "get_query_results",
     "describe_ops_items"}

\* the publish, when it happens, is the last external call
PublishIsLast ==
    \A i \in 1..Len(out.calls) :
        out.calls[i].api = "put_metric_data" => i = Len(out.calls)

\* C27 as stated: within an invocation the pipeline state is fetched
\* before the correlated fact is queried, and the publish is the last
\* external call.
C27_Original ==
    phase = "done"
    => /\ PublishIsLast
       /\ \A i \in 1..Len(out.calls), j \in 1..Len(out.calls) :
            (out.calls[i].api = "get_pipeline_state" /\ out.calls[j].api \in FactCalls)
            => i < j

\* C27 amended: within an invocation the correlated fact is queried
\* first, the pipeline state is fetched after it, and the publish is the
\* last external call.
C27_FactsThenStateThenPublish ==
    phase = "done"
    => /\ PublishIsLast
       /\ \A i \in 1..Len(out.calls), j \in 1..Len(out.calls) :
            (out.calls[i].api = "get_pipeline_state" /\ out.calls[j].api \in FactCalls)
            => j < i

\* C27 witness: a lead-time invocation that queried, fetched the pipeline
\* state and published, in this order
C27_Witness ==
    /\ Done("LT")
    /\ Len(out.calls) = 5
    /\ out.calls[1] = Call("start_query_execution")
    /\ out.calls[2] = Call("get_query_execution")
    /\ out.calls[3] = Call("get_query_results")
    /\ out.calls[4] = Call("get_pipeline_state")
    /\ out.calls[5].api = "put_metric_data"


\* the metric-sink calls of a sequence of outcomes, in order
RECURSIVE SamplesOf(_)
SamplesOf(outcomes) ==
    IF outcomes = <<>> THEN <<>>
    ELSE Puts(outcomes[1]) \o SamplesOf(Tail(outcomes))

C30_SamplesBoundedByDeployments ==
    Len(SamplesOf(delivered)) <= codepipeline.deployed


====
